---------------------------- MODULE Spec2Model ----------------------------
(***************************************************************************)
(* Model of the CMAPSS synthetic data generator of the jet engine digital  *)
(* twin (Engine3DVisualization.tsx, lines 740-1242): the engine registry    *)
(* cmapssEngines and the generators generateCMAPSSSensorData,               *)
(* generateCMAPSSHealthData and getCMAPSSPerformanceMetrics.                *)
(*                                                                         *)
(* Numbers.  A TypeScript `number` that holds a fraction is modelled as a  *)
(* decimal fixed-point integer: the value v is the integer v * Scale, and   *)
(* every multiplication, division and square root rounds its result to the *)
(* nearest 1/Scale, as IEEE arithmetic rounds to the nearest double.  Counts *)
(* (cycle, engine.cycles, remainingUsefulLife, thrustOutput) are integers.  *)
(* TLC integers are 32 bit, so the operators below split their operands.    *)
(*                                                                         *)
(* Randomness.  Math.random() is a process-wide source.  One call of a      *)
(* generator sees the tape rnd, TapeLen values of k / RandDen with           *)
(* k \in 0 .. RandDen - 1, repeated cyclically: the i-th draw of the call    *)
(* is rnd[((i - 1) % TapeLen) + 1] / RandDen.                                *)
(***************************************************************************)
EXTENDS Integers, Sequences, FiniteSets, TLC

\* ------------------------------------------------------------------ bounds
MaxCycles == 2

TapeLen == 3

RandDen == 3

\* ------------------------------------------------- fixed-point arithmetic
Scale == 100000

Abs(x) == IF x < 0 THEN -x ELSE x

Sign(x) == IF x < 0 THEN -1 ELSE 1

\* Math.max and Math.min
Max(a, b) == IF a >= b THEN a ELSE b

Min(a, b) == IF a <= b THEN a ELSE b

\* the integer n as a fixed-point number
Fix(n) == n * Scale

\* a decimal literal with one, two and three fraction digits
Tenths(n) == n * (Scale \div 10)

Hundredths(n) == n * (Scale \div 100)

Thousandths(n) == n * (Scale \div 1000)

\* a / b for integers a and b > 0, to the nearest integer, ties upwards
RoundDiv(a, b) == LET q == a \div b
                      r == a % b
                  IN  IF 2 * r >= b THEN q + 1 ELSE q

\* the product of two fixed-point numbers >= 0, rounded to the nearest 1/Scale
MulNat(a, b) ==
  LET ah == a \div Scale
      al == a % Scale
      bh == b \div Scale
      bl == b % Scale
      b1 == bl \div 100
      b0 == bl % 100
      low == (al * b1 + ((al * b0 + Scale \div 2) \div 100)) \div (Scale \div 100)
  IN  ah * bh * Scale + ah * bl + al * bh + low

\* a * b
Mul(a, b) == Sign(a) * Sign(b) * MulNat(Abs(a), Abs(b))

\* long division: acc holds the digits found so far, r the remainder
RECURSIVE DivDigits(_, _, _, _)
DivDigits(r, b, s, acc) ==
  IF s = 1
    THEN IF 2 * r >= b THEN acc + 1 ELSE acc
    ELSE DivDigits((r * 10) % b, b, s \div 10, acc * 10 + (r * 10) \div b)

\* the quotient of two fixed-point numbers a >= 0 and b > 0
DivNat(a, b) ==
  IF b % Scale = 0
    THEN RoundDiv(a, b \div Scale)
    ELSE DivDigits(a % b, b, Scale, a \div b)

\* a / b, b > 0
Div(a, b) == Sign(a) * DivNat(Abs(a), b)

\* Math.sqrt of a fixed-point number x > 0, by Newton's iteration
RECURSIVE Newton(_, _, _)
Newton(x, s, k) ==
  IF k = 0 THEN s ELSE Newton(x, (s + Div(x, s)) \div 2, k - 1)

MathSqrt(x) == Newton(x, x, 8)

\* Math.floor in the place of Math.round
MathFloor(x) == x \div Scale

\* Math.round: to the nearest integer, ties towards +infinity
MathRound(x) == (x + Scale \div 2) \div Scale

\* Number(x.toFixed(digits)): x rounded to `digits` decimals, ties away
\* from zero; the result is again a fixed-point number
ToFixed(x, digits) ==
  LET unit == Scale \div (10 ^ digits)
  IN  Sign(x) * ((Abs(x) + unit \div 2) \div unit) * unit

\* ---------------------------------------------------------------- registry
FD001Modes == <<"HPC Degradation">>

FD003Modes == <<"HPC Degradation", "Fan Degradation">>

\* a record pasted from the first one with its dataset left as it was
CMAPSSEngineCopied(id, sn, hours, cyc, health, st, last, next, ds, cond, modes) ==
  [engineId |-> id, model |-> "CFM56-7B (CMAPSS)", serialNumber |-> sn,
   flightHours |-> hours, cycles |-> cyc, healthScore |-> health,
   status |-> st, lastMaintenance |-> last, nextMaintenance |-> next,
   dataset |-> "FD001", operationalConditions |-> cond, faultModes |-> modes]

CMAPSSEngine(id, sn, hours, cyc, health, st, last, next, ds, cond, modes) ==
  [engineId |-> id, model |-> "CFM56-7B (CMAPSS)", serialNumber |-> sn,
   flightHours |-> hours, cycles |-> cyc, healthScore |-> health,
   status |-> st, lastMaintenance |-> last, nextMaintenance |-> next,
   dataset |-> ds, operationalConditions |-> cond, faultModes |-> modes]

cmapssEngines ==
  << CMAPSSEngine("CMAPSS-FD001-001", "SN001", 15420, 362, Tenths(925),
                  "operational", "2024-01-15", "2024-07-15", "FD001",
                  "Sea Level", FD001Modes),
     CMAPSSEngine("CMAPSS-FD001-002", "SN002", 12850, 334, Tenths(887),
                  "operational", "2024-02-01", "2024-08-01", "FD001",
                  "Sea Level", FD001Modes),
     CMAPSSEngine("CMAPSS-FD001-003", "SN003", 8920, 206, Tenths(952),
                  "operational", "2024-03-10", "2024-09-10", "FD001",
                  "Sea Level", FD001Modes),
     CMAPSSEngine("CMAPSS-FD002-001", "SN101", 18650, 298, Tenths(854),
                  "operational", "2024-01-20", "2024-07-20", "FD002",
                  "6 Operating Conditions", FD001Modes),
     CMAPSSEngine("CMAPSS-FD002-002", "SN102", 21340, 356, Tenths(789),
                  "maintenance_required", "2024-02-15", "2024-05-15", "FD002",
                  "6 Operating Conditions", FD001Modes),
     CMAPSSEngine("CMAPSS-FD003-001", "SN201", 16780, 285, Tenths(821),
                  "operational", "2024-01-25", "2024-06-25", "FD003",
                  "Sea Level", FD003Modes),
     CMAPSSEngine("CMAPSS-FD003-002", "SN202", 19420, 312, Tenths(746),
                  "maintenance_required", "2024-03-01", "2024-05-01", "FD003",
                  "Sea Level", FD003Modes),
     CMAPSSEngine("CMAPSS-FD004-001", "SN301", 22150, 341, Tenths(713),
                  "degraded", "2024-02-10", "2024-04-10", "FD004",
                  "6 Operating Conditions", FD003Modes),
     CMAPSSEngine("CMAPSS-FD004-002", "SN302", 24680, 378, Tenths(689),
                  "degraded", "2024-01-05", "2024-03-05", "FD004",
                  "6 Operating Conditions", FD003Modes) >>

\* ids that no record of cmapssEngines carries
UnknownIds == {"unknown-id", ""}

RegisteredIds == {cmapssEngines[i].engineId : i \in DOMAIN cmapssEngines}

EngineIds == RegisteredIds \cup UnknownIds

\* the value of a variable that holds nothing yet
Undefined == [kind |-> "undefined"]

VARIABLES registry, engineId, cycles, rnd, latestReading, pc, result,
          previous, view

vars == <<registry, engineId, cycles, rnd, latestReading, pc, result,
          previous, view>>

\* ------------------------------------------------------------ array helpers
\* Array.prototype.find, as the index of the first match, 0 for undefined
FindDefault(id) == IF \E i \in DOMAIN registry : registry[i].engineId = id
                     THEN CHOOSE i \in DOMAIN registry :
                            /\ registry[i].engineId = id
                            /\ \A j \in 1 .. i - 1 : registry[j].engineId # id
                     ELSE 1

FindIndex(id) == IF \E i \in DOMAIN registry : registry[i].engineId = id
                   THEN CHOOSE i \in DOMAIN registry :
                          /\ registry[i].engineId = id
                          /\ \A j \in 1 .. i - 1 : registry[j].engineId # id
                   ELSE 0

\* Array.prototype.includes
Includes(arr, x) == \E i \in DOMAIN arr : arr[i] = x

\* --------------------------------------------------------- the random source
Tapes == [1 .. TapeLen -> 0 .. RandDen - 1]

\* the numerator of the i-th draw: Math.random() returns TapeAt(i) / RandDen
TapeAt(i) == rnd[((i - 1) % TapeLen) + 1]

\* the i-th Math.random() of the call, in [0, 1)
MathRandom(i) == Div(Fix(TapeAt(i)), Fix(RandDen))

\* ------------------------------------------------ generateCMAPSSSensorData
\* Math.random() is called 18 times per loop iteration
DrawsPerCycle == 18

datasetParams(dataset) ==
  CASE dataset = "FD001" ->
         [altitudeBase |-> 0, machBase |-> 0, tempVariation |-> Tenths(5)]
    [] dataset = "FD002" ->
         [altitudeBase |-> 25000, machBase |-> Tenths(7),
          tempVariation |-> Tenths(20)]
    [] dataset = "FD003" ->
         [altitudeBase |-> 0, machBase |-> 0, tempVariation |-> Tenths(8)]
    [] dataset = "FD004" ->
         [altitudeBase |-> 30000, machBase |-> Hundredths(75),
          tempVariation |-> Tenths(25)]

\* noise = () => (Math.random() - 0.5) * 0.02, at draw i
noise(i) == Mul(MathRandom(i) - Tenths(5), Hundredths(2))

\* cycleNoise = () => (Math.random() - 0.5) * params.tempVariation, at draw i
cycleNoise(i, params) == Mul(MathRandom(i) - Tenths(5), params.tempVariation)

degradationFactor(engine, cycle) ==
  Fix(1) - Div(Fix(cycle), Mul(Fix(engine.cycles), Tenths(12)))

\* the factor without its floor
healthFactorNoFloor(engine, cycle) == degradationFactor(engine, cycle)

healthFactor(engine, cycle) == Max(Tenths(6), degradationFactor(engine, cycle))

\* the Rankine to Celsius conversion with the 491.67 offset
EGTOfCelsius(T30) == Div(Mul(T30 - Hundredths(49167), Fix(5)), Fix(9))

\* EGT = (T30 - 459.67) * 5/9
EGTOf(T30) == Div(Mul(T30 - Hundredths(45967), Fix(5)), Fix(9))

\* the ratio taken the other way round
eprInverted(P24, P2) == Div(P2, P24)

\* epr = P24 / P2
eprOf(P24, P2) == Div(P24, P2)

\* T24 = 1580 + cycleNoise() * 10 + (1 - healthFactor) * 20, before rounding
T24Of(hf, cn) == Fix(1580) + Mul(cn, Fix(10)) + Mul(Fix(1) - hf, Fix(20))

\* the health term of T30 taken with the opposite sign
T30OfCooling(hf, cn) == Fix(1350) + Mul(cn, Fix(15)) - Mul(Fix(1) - hf, Fix(30))

\* T30 = 1350 + cycleNoise() * 15 + (1 - healthFactor) * 30, before rounding
T30Of(hf, cn) == Fix(1350) + Mul(cn, Fix(15)) + Mul(Fix(1) - hf, Fix(30))

\* Nf = 2388.0 * healthFactor + cycleNoise() * 10, before rounding
NfOf(hf, cn) == Mul(Fix(2388), hf) + Mul(cn, Fix(10))

\* Nc = 9046.0 * healthFactor + cycleNoise() * 50, before rounding
NcOf(hf, cn) == Mul(Fix(9046), hf) + Mul(cn, Fix(50))

\* one iteration of the loop: the reading pushed for `cycle`
Reading(engine, id, cycle) ==
  LET params == datasetParams(engine.dataset)
      d  == (cycle - 1) * DrawsPerCycle
      hf == healthFactor(engine, cycle)
      T2  == Hundredths(51867) + cycleNoise(d + 1, params)
      T24 == T24Of(hf, cycleNoise(d + 2, params))
      T30 == T30Of(hf, cycleNoise(d + 3, params))
      P2  == Hundredths(1462) + noise(d + 4)
      P15 == Hundredths(844) + Mul(noise(d + 5), Tenths(5))
      P24 == Fix(593) + Mul(cycleNoise(d + 6, params), Fix(20))
               + Mul(Fix(1) - hf, Fix(50))
      Ps30 == Fix(1400) + Mul(cycleNoise(d + 7, params), Fix(30))
               + Mul(Fix(1) - hf, Fix(60))
      Nf  == NfOf(hf, cycleNoise(d + 8, params))
      Nc  == NcOf(hf, cycleNoise(d + 9, params))
      epr == eprOf(P24, P2)
      phi == Hundredths(3) + Mul(noise(d + 10), Thousandths(2))
               + Mul(Fix(1) - hf, Thousandths(5))
      EGT == EGTOf(T30)
      N1  == Mul(Div(Nf, Fix(2400)), Fix(100))
      N2  == Mul(Div(Nc, Fix(9100)), Fix(100))
      fuelFlow == Mul(Mul(phi, Ps30), Tenths(1))
  IN  [timestamp |-> [date |-> "2024-01-01", plusDays |-> cycle],
       engineId |-> id,
       cycle |-> cycle,
       EGT |-> ToFixed(EGT, 1),
       N1 |-> ToFixed(N1, 1),
       N2 |-> ToFixed(N2, 1),
       fuelFlow |-> ToFixed(fuelFlow, 0),
       oilPressure |-> ToFixed(Mul(P24, Thousandths(25)), 1),
       oilTemperature |-> ToFixed(Mul(EGT, Tenths(6)), 1),
       vibration |-> ToFixed(Mul(Abs(Nf - Fix(2388)), Thousandths(1)), 2),
       \* altitudeBase + cycleNoise() * 1000 is emitted as it is computed,
       \* with no toFixed: the value is held as the exact quotient
       \* altitudeBase + (draw - 0.5) * tempVariation * 1000 = num / den
       altitude |-> [num |-> params.altitudeBase * 2 * RandDen
                               + (2 * TapeAt(d + 11) - RandDen)
                                   * (params.tempVariation \div Thousandths(1)),
                     den |-> 2 * RandDen],
       machNumber |-> ToFixed(params.machBase + Mul(noise(d + 12), Tenths(1)), 2),
       ambientTemp |-> ToFixed(Fix(15) - params.altitudeBase * (Scale \div 10000) * 65, 1),
       T2 |-> ToFixed(T2, 2),
       T24 |-> ToFixed(T24, 2),
       T30 |-> ToFixed(T30, 2),
       P2 |-> ToFixed(P2, 2),
       P15 |-> ToFixed(P15, 2),
       P24 |-> ToFixed(P24, 2),
       Ps30 |-> ToFixed(Ps30, 2),
       Nf |-> ToFixed(Nf, 2),
       Nc |-> ToFixed(Nc, 2),
       epr |-> ToFixed(epr, 3),
       phi |-> ToFixed(phi, 4),
       NRf |-> ToFixed(Div(Nf, MathSqrt(Div(T2, Hundredths(51867)))), 2),
       NRc |-> ToFixed(Div(Nc, MathSqrt(Div(T24, Hundredths(51867)))), 2),
       BPR |-> ToFixed(Tenths(51) + Mul(noise(d + 13), Tenths(1)), 2),
       farB |-> ToFixed(Thousandths(24) + Mul(noise(d + 14), Thousandths(1)), 4),
       htBleed |-> ToFixed(Fix(394) + Mul(noise(d + 15), Fix(5)), 2),
       Nf_dmd |-> ToFixed(Nf + cycleNoise(d + 16, params), 2),
       PCNfR_dmd |-> ToFixed(Hundredths(4747) + noise(d + 17), 2),
       W31 |-> ToFixed(Hundredths(3906) + Mul(noise(d + 18), Fix(2)), 2)]

\* the loop with the test cycle < cycles
ReadingsExclusive(engine, id, n) ==
  [cycle \in 1 .. n - 1 |-> Reading(engine, id, cycle)]

\* for (let cycle = 1; cycle <= cycles; cycle++) readings.push(...)
Readings(engine, id, n) == [cycle \in 1 .. n |-> Reading(engine, id, cycle)]

\* readings kept in an array that outlives the call and is never emptied
SensorDataShared(id, n) ==
  LET i == FindIndex(id)
      kept == IF previous # Undefined
                   /\ previous.result.op = "generateCMAPSSSensorData"
                THEN previous.result.value
                ELSE <<>>
  IN  IF i = 0 THEN <<>> ELSE kept \o Readings(registry[i], id, n)

\* the value generateCMAPSSSensorData(id, n) returns
SensorData(id, n) ==
  LET i == FindIndex(id)
  IN  IF i = 0 THEN <<>> ELSE Readings(registry[i], id, n)

\* a generator that throws for an unknown id, as the health generator does
SensorResultThrows(id, n) ==
  IF FindIndex(id) = 0
    THEN [kind |-> "throw", op |-> "generateCMAPSSSensorData",
          message |-> <<"Engine ", id, " not found">>]
    ELSE [kind |-> "return", op |-> "generateCMAPSSSensorData",
          value |-> SensorData(id, n)]

\* the outcome of the call generateCMAPSSSensorData(id, n)
SensorResult(id, n) ==
  [kind |-> "return", op |-> "generateCMAPSSSensorData",
   value |-> SensorData(id, n)]

generateCMAPSSSensorData ==
  /\ pc = "call"
  /\ pc' = "return"
  /\ result' = SensorResult(engineId, cycles)
  /\ UNCHANGED <<registry, engineId, cycles, rnd, latestReading, previous,
               view>>

\* ------------------------------------------------ generateCMAPSSHealthData
\* the message of the Error thrown for an id the registry does not hold
NotFoundMessage(id) == <<"Engine ", id, " not found">>

estimatedTotalLife(engine) == Mul(Fix(engine.cycles), Tenths(13))

remainingCycles(engine) ==
  Max(0, estimatedTotalLife(engine) - Fix(engine.cycles))

\* the dataset increment applied to FD004 alone
baseDegradationRateFD004Only(engine) ==
  Hundredths(15)
    + (IF Includes(engine.faultModes, "Fan Degradation")
         THEN Hundredths(5) ELSE 0)
    + (IF engine.dataset = "FD004" THEN Hundredths(3) ELSE 0)

\* the two increments chained with else-if
baseDegradationRateElseIf(engine) ==
  IF Includes(engine.faultModes, "Fan Degradation")
    THEN Hundredths(15) + Hundredths(5)
    ELSE IF engine.dataset = "FD002" \/ engine.dataset = "FD004"
           THEN Hundredths(15) + Hundredths(3)
           ELSE Hundredths(15)

baseDegradationRate(engine) ==
  LET r0 == Hundredths(15)
      r1 == IF Includes(engine.faultModes, "Fan Degradation")
              THEN r0 + Hundredths(5) ELSE r0
      r2 == IF engine.dataset = "FD002" \/ engine.dataset = "FD004"
              THEN r1 + Hundredths(3) ELSE r1
  IN  r2

faultProbability(engine) ==
  Max(0, Mul(Div(Fix(100) - engine.healthScore, Fix(100)), Tenths(8)))

\* the three groups chained with else-if
criticalComponentsElseIf(engine) ==
  IF Includes(engine.faultModes, "HPC Degradation")
    THEN <<"High Pressure Compressor", "Compressor Blades">>
    ELSE IF Includes(engine.faultModes, "Fan Degradation")
           THEN <<"Fan Blades", "Fan Disk">>
           ELSE IF engine.healthScore < Fix(80)
                  THEN <<"Combustor", "Turbine Blades">>
                  ELSE <<>>

\* the health test of the third group turned round
criticalComponentsFlipped(engine) ==
  (IF Includes(engine.faultModes, "HPC Degradation")
     THEN <<"High Pressure Compressor", "Compressor Blades">> ELSE <<>>)
  \o (IF Includes(engine.faultModes, "Fan Degradation")
        THEN <<"Fan Blades", "Fan Disk">> ELSE <<>>)
  \o (IF engine.healthScore > Fix(80)
        THEN <<"Combustor", "Turbine Blades">> ELSE <<>>)

criticalComponents(engine) ==
  LET c0 == <<>>
      c1 == IF Includes(engine.faultModes, "HPC Degradation")
              THEN c0 \o <<"High Pressure Compressor", "Compressor Blades">>
              ELSE c0
      c2 == IF Includes(engine.faultModes, "Fan Degradation")
              THEN c1 \o <<"Fan Blades", "Fan Disk">> ELSE c1
      c3 == IF engine.healthScore < Fix(80)
              THEN c2 \o <<"Combustor", "Turbine Blades">> ELSE c2
  IN  c3

Routine == "Continue normal operations"

Inspection == "Schedule borescope inspection within 50 cycles"

Maintenance ==
  "Plan maintenance within 25 cycles - component replacement may be required"

Urgent ==
  "URGENT: Schedule immediate maintenance - engine approaching critical degradation levels"

\* the thresholds tested with <= in the place of <
recommendationInclusive(engine) ==
  IF engine.healthScore <= Fix(70) THEN Urgent
  ELSE IF engine.healthScore <= Fix(75) THEN Maintenance
  ELSE IF engine.healthScore <= Fix(85) THEN Inspection
  ELSE Routine

recommendation(engine) ==
  LET r0 == Routine
      r1 == IF engine.healthScore < Fix(85) THEN Inspection ELSE r0
      r2 == IF engine.healthScore < Fix(75) THEN Maintenance ELSE r1
      r3 == IF engine.healthScore < Fix(70) THEN Urgent ELSE r2
  IN  r3

\* an assessment whose healthScore carries a draw of noise
HealthDataJittered(engine, id) ==
  [engineId |-> id,
   currentCycle |-> engine.cycles,
   remainingUsefulLife |-> MathRound(remainingCycles(engine)),
   healthScore |-> engine.healthScore + noise(1),
   degradationRate |-> ToFixed(baseDegradationRate(engine), 3),
   faultProbability |-> ToFixed(faultProbability(engine), 3),
   maintenanceRecommendation |-> recommendation(engine),
   criticalComponents |-> criticalComponents(engine)]

\* the object generateCMAPSSHealthData returns for a record it found
HealthData(engine, id) ==
  [engineId |-> id,
   currentCycle |-> engine.cycles,
   remainingUsefulLife |-> MathRound(remainingCycles(engine)),
   healthScore |-> engine.healthScore,
   degradationRate |-> ToFixed(baseDegradationRate(engine), 3),
   faultProbability |-> ToFixed(faultProbability(engine), 3),
   maintenanceRecommendation |-> recommendation(engine),
   criticalComponents |-> criticalComponents(engine)]

generateCMAPSSHealthData ==
  /\ pc = "call"
  /\ pc' = "return"
  /\ LET i == FindIndex(engineId)
     IN  result' =
           IF i = 0
             THEN [kind |-> "throw", op |-> "generateCMAPSSHealthData",
                   message |-> NotFoundMessage(engineId)]
             ELSE [kind |-> "return", op |-> "generateCMAPSSHealthData",
                   value |-> HealthData(registry[i], engineId)]
  /\ UNCHANGED <<registry, engineId, cycles, rnd, latestReading, previous,
               view>>

\* --------------------------------------------- getCMAPSSPerformanceMetrics
\* generateCMAPSSSensorData(engineId, 10)
MetricsCycles == 10

\* the first element in the place of the last
FirstOf(sensorData) ==
  IF Len(sensorData) = 0 THEN Undefined ELSE sensorData[1]

\* sensorData[sensorData.length - 1], undefined for an empty array
LastOf(sensorData) ==
  IF Len(sensorData) = 0 THEN Undefined ELSE sensorData[Len(sensorData)]

\* Math.min in the place of Math.max
fuelEfficiencyMin(latest) ==
  Min(Tenths(7), Fix(1) - Div(latest.fuelFlow - Fix(2500), Fix(2500)))

fuelEfficiency(latest) ==
  Max(Tenths(7), Fix(1) - Div(latest.fuelFlow - Fix(2500), Fix(2500)))

\* the EGT baseline taken as 450
thermalEfficiencyLowBaseline(latest) ==
  Max(Hundredths(75), Fix(1) - Div(latest.EGT - Fix(450), Fix(450)))

thermalEfficiency(latest) ==
  Max(Hundredths(75), Fix(1) - Div(latest.EGT - Fix(650), Fix(650)))

\* Math.round(24000 * (healthScore / 100)); 24000 * x / Scale is computed
\* as 24 * x / (Scale / 1000) to stay within 32 bits
thrustOutput(engine) ==
  RoundDiv(24 * Div(engine.healthScore, Fix(100)), Scale \div 1000)

\* lines 1153-1176: the value returned for the latest reading
Metrics(engine, id, latest) ==
  IF latest = Undefined
    THEN [kind |-> "null", op |-> "getCMAPSSPerformanceMetrics"]
    ELSE [kind |-> "return", op |-> "getCMAPSSPerformanceMetrics",
          value |->
            [engineId |-> id,
             fuelEfficiency |-> ToFixed(fuelEfficiency(latest), 3),
             thermalEfficiency |-> ToFixed(thermalEfficiency(latest), 3),
             thrustOutput |-> thrustOutput(engine),
             operatingTemperature |-> latest.EGT,
             vibrationLevel |-> latest.vibration,
             pressureRatio |-> latest.epr,
             fanSpeed |-> latest.N1,
             coreSpeed |-> latest.N2,
             dataset |-> engine.dataset,
             operationalConditions |-> engine.operationalConditions,
             faultModes |-> engine.faultModes]]

getCMAPSSPerformanceMetrics ==
  /\ pc = "call"
  /\ pc' = "return"
  /\ LET i == FindIndex(engineId)
         latest == LastOf(SensorData(engineId, MetricsCycles))
     IN  IF i = 0
           THEN /\ result' = [kind |-> "null",
                              op |-> "getCMAPSSPerformanceMetrics"]
                /\ UNCHANGED latestReading
           ELSE /\ latestReading' = latest
                /\ result' = Metrics(registry[i], engineId, latest)
  /\ UNCHANGED <<registry, engineId, cycles, rnd, previous, view>>

\* lines 1153-1176 alone, applied to a reading that is already at hand
metricsOfReading ==
  /\ pc = "call"
  /\ latestReading # Undefined
  /\ pc' = "return"
  /\ result' = Metrics(registry[FindIndex(engineId)], engineId, latestReading)
  /\ UNCHANGED <<registry, engineId, cycles, rnd, latestReading, previous,
               view>>

\* ------------------------------------------------- generateHistoricalData
\* the jitter taken ten wide
historyHealthScoreWide(index, days, d) ==
  MathRound(Fix(95) - Mul(Div(Fix(index), Fix(days)), Fix(10))
              + Mul(MathRandom(d), Fix(10)))

\* Math.round(95 - (index / days) * 10 + Math.random() * 5), at draw d
historyHealthScore(index, days, d) ==
  MathRound(Fix(95) - Mul(Div(Fix(index), Fix(days)), Fix(10))
              + Mul(MathRandom(d), Fix(5)))

\* the entry numbered by the index of map, which starts at 0
HistoricalDataPointIndexed(reading, index, days, d) ==
  [date |-> reading.timestamp,
   healthScore |-> historyHealthScore(index, days, d),
   fuelEfficiency |-> Div(reading.fuelFlow, Fix(3000)),
   temperature |-> reading.EGT,
   vibration |-> reading.vibration,
   cycles |-> index]

\* the object the callback of map returns for (reading, index); date is the
\* calendar day of the timestamp, which carries no time of day here
HistoricalDataPoint(reading, index, days, d) ==
  [date |-> reading.timestamp,
   healthScore |-> historyHealthScore(index, days, d),
   fuelEfficiency |-> Div(reading.fuelFlow, Fix(3000)),
   temperature |-> reading.EGT,
   vibration |-> reading.vibration,
   cycles |-> reading.cycle]

\* sensorData.map(...): the series draws first, the callback draws once per
\* entry after it
HistoricalData(id, days) ==
  LET sensorData == SensorData(id, days)
  IN  [k \in 1 .. Len(sensorData) |->
         HistoricalDataPoint(sensorData[k], k - 1, days,
                             Len(sensorData) * DrawsPerCycle + k)]

generateHistoricalData ==
  /\ pc = "call"
  /\ pc' = "return"
  /\ result' = [kind |-> "return", op |-> "generateHistoricalData",
                value |-> HistoricalData(engineId, cycles)]
  /\ UNCHANGED <<registry, engineId, cycles, rnd, latestReading, previous,
               view>>

\* ------------------------------------------------- getComponentHealthData
\* the fan flagged by the engine's healthScore as the turbine is
ComponentHealthGraded(healthData) ==
  LET fanDraws == IF healthData.faultProbability > Tenths(3) THEN 0 ELSE 1
  IN  << [id |-> "fan", name |-> "Fan Assembly",
          health |-> IF healthData.faultProbability > Tenths(3)
                       THEN MathRound(Fix(85)
                              - Mul(healthData.faultProbability, Fix(20)))
                       ELSE MathRound(Fix(90) + Mul(MathRandom(1), Fix(8))),
          status |-> IF healthData.healthScore < Fix(75)
                       THEN "warning" ELSE "normal",
          lastInspection |-> "2024-01-15", nextInspection |-> "2024-07-15"],
         [id |-> "compressor", name |-> "High Pressure Compressor",
          health |-> MathRound(healthData.healthScore - Fix(5)
                                 + Mul(MathRandom(fanDraws + 1), Fix(10))),
          status |-> IF Includes(healthData.criticalComponents,
                                 "High Pressure Compressor")
                       THEN "warning" ELSE "normal",
          lastInspection |-> "2024-02-01", nextInspection |-> "2024-08-01"],
         [id |-> "combustor", name |-> "Combustor",
          health |-> MathRound(healthData.healthScore
                                 + Mul(MathRandom(fanDraws + 2), Fix(5))),
          status |-> "normal",
          lastInspection |-> "2024-01-20", nextInspection |-> "2024-07-20"],
         [id |-> "turbine", name |-> "Turbine Assembly",
          health |-> MathRound(healthData.healthScore - Fix(3)
                                 + Mul(MathRandom(fanDraws + 3), Fix(6))),
          status |-> IF healthData.healthScore < Fix(75)
                       THEN "warning" ELSE "normal",
          lastInspection |-> "2024-03-01", nextInspection |-> "2024-09-01"],
         [id |-> "nozzle", name |-> "Exhaust Nozzle",
          health |-> MathRound(Fix(92) + Mul(MathRandom(fanDraws + 4), Fix(6))),
          status |-> "normal",
          lastInspection |-> "2024-02-15", nextInspection |-> "2024-08-15"] >>

\* the combustor jitter taken ten wide
ComponentHealthWide(healthData) ==
  LET fanDraws == IF healthData.faultProbability > Tenths(3) THEN 0 ELSE 1
  IN  << [id |-> "fan", name |-> "Fan Assembly",
          health |-> IF healthData.faultProbability > Tenths(3)
                       THEN MathRound(Fix(85)
                              - Mul(healthData.faultProbability, Fix(20)))
                       ELSE MathRound(Fix(90) + Mul(MathRandom(1), Fix(8))),
          status |-> "normal",
          lastInspection |-> "2024-01-15", nextInspection |-> "2024-07-15"],
         [id |-> "compressor", name |-> "High Pressure Compressor",
          health |-> MathRound(healthData.healthScore - Fix(5)
                                 + Mul(MathRandom(fanDraws + 1), Fix(10))),
          status |-> IF Includes(healthData.criticalComponents,
                                 "High Pressure Compressor")
                       THEN "warning" ELSE "normal",
          lastInspection |-> "2024-02-01", nextInspection |-> "2024-08-01"],
         [id |-> "combustor", name |-> "Combustor",
          health |-> MathRound(healthData.healthScore
                                 + Mul(MathRandom(fanDraws + 2), Fix(10))),
          status |-> "normal",
          lastInspection |-> "2024-01-20", nextInspection |-> "2024-07-20"],
         [id |-> "turbine", name |-> "Turbine Assembly",
          health |-> MathRound(healthData.healthScore - Fix(3)
                                 + Mul(MathRandom(fanDraws + 3), Fix(6))),
          status |-> IF healthData.healthScore < Fix(75)
                       THEN "warning" ELSE "normal",
          lastInspection |-> "2024-03-01", nextInspection |-> "2024-09-01"],
         [id |-> "nozzle", name |-> "Exhaust Nozzle",
          health |-> MathRound(Fix(92) + Mul(MathRandom(fanDraws + 4), Fix(6))),
          status |-> "normal",
          lastInspection |-> "2024-02-15", nextInspection |-> "2024-08-15"] >>

\* the five component records built from one health assessment; the fan
\* draws only on its second branch
ComponentHealth(healthData) ==
  LET fanDraws == IF healthData.faultProbability > Tenths(3) THEN 0 ELSE 1
  IN  << [id |-> "fan", name |-> "Fan Assembly",
          health |-> IF healthData.faultProbability > Tenths(3)
                       THEN MathRound(Fix(85)
                              - Mul(healthData.faultProbability, Fix(20)))
                       ELSE MathRound(Fix(90) + Mul(MathRandom(1), Fix(8))),
          status |-> "normal",
          lastInspection |-> "2024-01-15", nextInspection |-> "2024-07-15"],
         [id |-> "compressor", name |-> "High Pressure Compressor",
          health |-> MathRound(healthData.healthScore - Fix(5)
                                 + Mul(MathRandom(fanDraws + 1), Fix(10))),
          status |-> IF Includes(healthData.criticalComponents,
                                 "High Pressure Compressor")
                       THEN "warning" ELSE "normal",
          lastInspection |-> "2024-02-01", nextInspection |-> "2024-08-01"],
         [id |-> "combustor", name |-> "Combustor",
          health |-> MathRound(healthData.healthScore
                                 + Mul(MathRandom(fanDraws + 2), Fix(5))),
          status |-> "normal",
          lastInspection |-> "2024-01-20", nextInspection |-> "2024-07-20"],
         [id |-> "turbine", name |-> "Turbine Assembly",
          health |-> MathRound(healthData.healthScore - Fix(3)
                                 + Mul(MathRandom(fanDraws + 3), Fix(6))),
          status |-> IF healthData.healthScore < Fix(75)
                       THEN "warning" ELSE "normal",
          lastInspection |-> "2024-03-01", nextInspection |-> "2024-09-01"],
         [id |-> "nozzle", name |-> "Exhaust Nozzle",
          health |-> MathRound(Fix(92) + Mul(MathRandom(fanDraws + 4), Fix(6))),
          status |-> "normal",
          lastInspection |-> "2024-02-15", nextInspection |-> "2024-08-15"] >>

\* an unknown id answered with an empty list, as the sensor generator does
ComponentHealthResultEmpty(id) ==
  LET i == FindIndex(id)
  IN  [kind |-> "return", op |-> "getComponentHealthData",
       value |-> IF i = 0 THEN <<>>
                          ELSE ComponentHealth(HealthData(registry[i], id))]

\* the outcome of getComponentHealthData(id): the error thrown by
\* generateCMAPSSHealthData is not caught
ComponentHealthResult(id) ==
  LET i == FindIndex(id)
  IN  IF i = 0
        THEN [kind |-> "throw", op |-> "getComponentHealthData",
              message |-> NotFoundMessage(id)]
        ELSE [kind |-> "return", op |-> "getComponentHealthData",
              value |-> ComponentHealth(HealthData(registry[i], id))]

getComponentHealthData ==
  /\ pc = "call"
  /\ pc' = "return"
  /\ result' = ComponentHealthResult(engineId)
  /\ UNCHANGED <<registry, engineId, cycles, rnd, latestReading, previous,
               view>>

\* ----------------------------------------------- generateMaintenanceAlerts
\* the view-model record made of a registry record
convertCMAPSSToEngine(cmapssEngine) ==
  [engineId |-> cmapssEngine.engineId,
   model |-> cmapssEngine.model,
   serialNumber |-> cmapssEngine.serialNumber,
   flightHours |-> cmapssEngine.flightHours,
   cycles |-> cmapssEngine.cycles,
   healthScore |-> cmapssEngine.healthScore,
   operationalState |->
     IF cmapssEngine.status = "operational" THEN "operational"
     ELSE IF cmapssEngine.status = "maintenance_required" THEN "maintenance"
     ELSE "offline",
   status |-> cmapssEngine.status,
   lastMaintenance |-> cmapssEngine.lastMaintenance,
   nextMaintenance |-> cmapssEngine.nextMaintenance]

\* cmapssEngines.map(convertCMAPSSToEngine), a new array made at load time
mockEngines ==
  [i \in DOMAIN cmapssEngines |-> convertCMAPSSToEngine(cmapssEngines[i])]

\* Date.now(): the clock is read as one symbolic instant throughout a call
DateNow == "now"

\* the component alerts pushed before the overall one
alertsOfComponentsFirst(engine, d) ==
  LET healthData == HealthData(registry[FindIndex(engine.engineId)],
                               engine.engineId)
      overall ==
        IF healthData.healthScore < Fix(75)
          THEN << [id |-> "alert-" \o engine.engineId \o "-" \o DateNow,
                   engineId |-> engine.engineId,
                   component |-> "Overall Engine Health",
                   severity |-> IF healthData.healthScore < Fix(60)
                                  THEN "critical" ELSE "high",
                   predictedFailureDate |->
                     [from |-> DateNow,
                      plusDays |-> healthData.remainingUsefulLife],
                   confidence |-> Hundredths(85),
                   recommendation |-> healthData.maintenanceRecommendation,
                   estimatedCost |->
                     15000 + MathRound(Mul(MathRandom(d + 1), Fix(10000)))] >>
          ELSE <<>>
      components == healthData.criticalComponents
  IN
        [k \in 1 .. Len(components) |->
           [id |-> "alert-" \o engine.engineId \o "-" \o components[k]
                     \o "-" \o DateNow,
            engineId |-> engine.engineId,
            component |-> components[k],
            severity |-> "medium",
            predictedFailureDate |-> [from |-> DateNow, plusDays |-> 30],
            confidence |-> Hundredths(75),
            recommendation |->
              <<"Inspect ", components[k], " during next maintenance window">>,
            estimatedCost |->
              5000 + MathRound(Mul(MathRandom(d + Len(overall) + k),
                                   Fix(8000)))]]
        \o overall

\* the alerts pushed for one engine, the first of them drawing at d + 1
alertsOf(engine, d) ==
  LET healthData == HealthData(registry[FindIndex(engine.engineId)],
                               engine.engineId)
      overall ==
        IF healthData.healthScore < Fix(75)
          THEN << [id |-> "alert-" \o engine.engineId \o "-" \o DateNow,
                   engineId |-> engine.engineId,
                   component |-> "Overall Engine Health",
                   severity |-> IF healthData.healthScore < Fix(60)
                                  THEN "critical" ELSE "high",
                   predictedFailureDate |->
                     [from |-> DateNow,
                      plusDays |-> healthData.remainingUsefulLife],
                   confidence |-> Hundredths(85),
                   recommendation |-> healthData.maintenanceRecommendation,
                   estimatedCost |->
                     15000 + MathRound(Mul(MathRandom(d + 1), Fix(10000)))] >>
          ELSE <<>>
      components == healthData.criticalComponents
  IN  overall \o
        [k \in 1 .. Len(components) |->
           [id |-> "alert-" \o engine.engineId \o "-" \o components[k]
                     \o "-" \o DateNow,
            engineId |-> engine.engineId,
            component |-> components[k],
            severity |-> "medium",
            predictedFailureDate |-> [from |-> DateNow, plusDays |-> 30],
            confidence |-> Hundredths(75),
            recommendation |->
              <<"Inspect ", components[k], " during next maintenance window">>,
            estimatedCost |->
              5000 + MathRound(Mul(MathRandom(d + Len(overall) + k),
                                   Fix(8000)))]]

\* mockEngines.forEach from engine i on, d draws having been made
RECURSIVE alertsFrom(_, _)
alertsFrom(i, d) ==
  IF i > Len(mockEngines)
    THEN <<>>
    ELSE LET pushed == alertsOf(mockEngines[i], d)
         IN  pushed \o alertsFrom(i + 1, d + Len(pushed))

\* the outcome of generateMaintenanceAlerts(): an engine the registry does
\* not hold makes generateCMAPSSHealthData throw, and nothing catches it
MaintenanceAlertsResult ==
  LET missing == {i \in DOMAIN mockEngines :
                    FindIndex(mockEngines[i].engineId) = 0}
  IN  IF missing # {}
        THEN [kind |-> "throw", op |-> "generateMaintenanceAlerts",
              message |-> NotFoundMessage(
                mockEngines[CHOOSE i \in missing :
                              \A j \in missing : i <= j].engineId)]
        ELSE [kind |-> "return", op |-> "generateMaintenanceAlerts",
              value |-> alertsFrom(1, 0)]

generateMaintenanceAlerts ==
  /\ pc = "call"
  /\ pc' = "return"
  /\ result' = MaintenanceAlertsResult
  /\ UNCHANGED <<registry, engineId, cycles, rnd, latestReading, previous,
               view>>

\* ------------------------------------------- generateSensorData (view model)
\* the two tests made the other way round
statusOfFlipped(value, critical, warning) ==
  IF value < critical THEN "critical"
  ELSE IF value < warning THEN "warning"
  ELSE "normal"

\* value > critical ? 'critical' : value > warning ? 'warning' : 'normal'
statusOf(value, critical, warning) ==
  IF value > critical THEN "critical"
  ELSE IF value > warning THEN "warning"
  ELSE "normal"

\* one entry of the array generateSensorData returns
SensorReading(id, tag, type, value, unit, reading, critical, warning) ==
  [id |-> id \o tag \o DateNow,
   engineId |-> id,
   sensorType |-> type,
   value |-> value,
   unit |-> unit,
   timestamp |-> reading.timestamp,
   status |-> statusOf(value, critical, warning)]

\* the value generateSensorData(id) returns: five entries made of the
\* reading of cycle 1, or none
ViewSensorData(id) ==
  LET cmapssData == SensorData(id, 1)
      reading == cmapssData[1]
  IN  IF Len(cmapssData) = 0
        THEN <<>>
        ELSE << SensorReading(id, "-egt-", "EGT", reading.EGT, "degC",
                              reading, Fix(700), Fix(650)),
                SensorReading(id, "-n1-", "N1_Speed", reading.N1, "%",
                              reading, Fix(105), Fix(100)),
                SensorReading(id, "-n2-", "N2_Speed", reading.N2, "%",
                              reading, Fix(110), Fix(105)),
                SensorReading(id, "-fuel-", "Fuel_Flow", reading.fuelFlow,
                              "kg/hr", reading, Fix(4000), Fix(3500)),
                SensorReading(id, "-vibration-", "Vibration",
                              reading.vibration, "mm/s", reading,
                              Fix(6), Fix(4)) >>

generateSensorData ==
  /\ pc = "call"
  /\ pc' = "return"
  /\ result' = [kind |-> "return", op |-> "generateSensorData",
                value |-> ViewSensorData(engineId)]
  /\ UNCHANGED <<registry, engineId, cycles, rnd, latestReading, previous,
               view>>

\* ----------------------------------------------------------- specifications
\* The program: the registry as the module sets it up, and one call of a
\* generator with any id, any cycle count and any random tape.
Init ==
  /\ registry = cmapssEngines
  /\ engineId \in EngineIds
  /\ cycles \in 0 .. MaxCycles
  /\ rnd \in Tapes
  /\ latestReading = Undefined
  /\ pc = "call"
  /\ result = Undefined
  /\ previous = Undefined
  /\ view = Undefined

Next ==
  \/ generateCMAPSSSensorData
  \/ generateCMAPSSHealthData
  \/ getCMAPSSPerformanceMetrics

Spec == Init /\ [][Next]_vars

\* generateCMAPSSHealthData as a function of the record it finds: the
\* registry holds one record with any healthScore of one decimal in
\* [0, 100], any dataset and any fault modes.
RecordModes ==
  {<<>>, <<"HPC Degradation">>, <<"Fan Degradation">>,
   <<"HPC Degradation", "Fan Degradation">>}

Datasets == {"FD001", "FD002", "FD003", "FD004"}

InitRecord ==
  /\ engineId = "CMAPSS-FD001-001"
  /\ \E h \in 0 .. 1000, ds \in Datasets, modes \in RecordModes,
        cyc \in {5, 362} :
       registry = << CMAPSSEngine(engineId, "SN001", 15420, cyc, Tenths(h),
                                  "operational", "2024-01-15", "2024-07-15",
                                  ds, "Sea Level", modes) >>
  /\ cycles = 0
  /\ rnd = [i \in 1 .. TapeLen |-> 0]
  /\ latestReading = Undefined
  /\ pc = "call"
  /\ result = Undefined
  /\ previous = Undefined
  /\ view = Undefined

NextRecord == generateCMAPSSHealthData

SpecRecord == InitRecord /\ [][NextRecord]_vars

\* The metric formulas as a function of the reading they are given: the
\* latest reading carries any fuelFlow and EGT, far outside what the
\* generator emits.
FuelFlows == {Fix(f) : f \in {0, 4, 2500, 3249, 3250, 3251, 5000, 20000}}

EGTs == {Tenths(t) : t \in {-2731, 0, 4946, 6500, 8124, 8125, 8126, 13000, 200000}}

InitReading ==
  /\ registry = cmapssEngines
  /\ engineId \in RegisteredIds
  /\ cycles = MetricsCycles
  /\ rnd = [i \in 1 .. TapeLen |-> 0]
  /\ \E f \in FuelFlows, e \in EGTs :
       latestReading =
         [Reading(cmapssEngines[FindIndex(engineId)], engineId, MetricsCycles)
            EXCEPT !.fuelFlow = f, !.EGT = e]
  /\ pc = "call"
  /\ result = Undefined
  /\ previous = Undefined
  /\ view = Undefined

NextReading == metricsOfReading

SpecReading == InitReading /\ [][NextReading]_vars

\* generateCMAPSSSensorData over long runs: every registered engine, a cycle
\* count beyond the point where healthFactor reaches its floor (cycle >=
\* 0.48 * engine.cycles, at most 182), and a tape whose draws are all equal.
LongRuns == {100, 200}

ConstantTapes == {[i \in 1 .. TapeLen |-> k] : k \in 0 .. RandDen - 1}

InitLong ==
  /\ registry = cmapssEngines
  /\ engineId \in RegisteredIds
  /\ cycles \in LongRuns
  /\ rnd \in ConstantTapes
  /\ latestReading = Undefined
  /\ pc = "call"
  /\ result = Undefined
  /\ previous = Undefined
  /\ view = Undefined

NextLong == generateCMAPSSSensorData

SpecLong == InitLong /\ [][NextLong]_vars

\* A history call: any id with a short series and any tape, or a long series
\* with a constant tape.
InitHistory ==
  /\ registry = cmapssEngines
  /\ engineId \in EngineIds
  /\ \/ cycles \in 0 .. MaxCycles /\ rnd \in Tapes
     \/ cycles \in LongRuns /\ rnd \in ConstantTapes
  /\ latestReading = Undefined
  /\ pc = "call"
  /\ result = Undefined
  /\ previous = Undefined
  /\ view = Undefined

NextHistory == generateHistoricalData

SpecHistory == InitHistory /\ [][NextHistory]_vars

\* A component-health call with any id and any tape.
NextComponents == getComponentHealthData

SpecComponents == Init /\ [][NextComponents]_vars

\* A call of generateMaintenanceAlerts under any tape; the function takes no
\* argument, and the engine the caller has selected is any id.
InitAlerts ==
  /\ registry = cmapssEngines
  /\ engineId \in EngineIds
  /\ cycles = 0
  /\ rnd \in Tapes
  /\ latestReading = Undefined
  /\ pc = "call"
  /\ result = Undefined
  /\ previous = Undefined
  /\ view = Undefined

NextAlerts == generateMaintenanceAlerts

SpecAlerts == InitAlerts /\ [][NextAlerts]_vars

\* A call of the view model's generateSensorData with any id under any tape;
\* the function takes no cycle count.
InitView ==
  /\ registry = cmapssEngines
  /\ engineId \in EngineIds
  /\ cycles = 1
  /\ rnd \in Tapes
  /\ latestReading = Undefined
  /\ pc = "call"
  /\ result = Undefined
  /\ previous = Undefined
  /\ view = Undefined

NextView == generateSensorData

SpecView == InitView /\ [][NextView]_vars

\* ---------------------------------------------------------------- callers
\* the call that has returned, kept for comparison with later ones
Call == [engineId |-> engineId, cycles |-> cycles, rnd |-> rnd,
         result |-> result]

\* ids a caller passes in a run of several calls
SeqIds == {"CMAPSS-FD001-001", "unknown-id"}

\* cycle counts a caller passes in a run of several calls
SeqCycles == {1, 2}

\* a call has returned and the caller makes another one, with arguments and
\* draws of its own; what the finished call held in its locals is gone
nextCall ==
  /\ pc = "return"
  /\ pc' = "call"
  /\ engineId' \in SeqIds
  /\ cycles' \in SeqCycles
  /\ rnd' \in ConstantTapes
  /\ latestReading' = Undefined
  /\ result' = Undefined
  /\ previous' \in {previous, Call}
  /\ UNCHANGED <<registry, view>>

\* Any number of calls one after another, of any of the generators.
InitSeq ==
  /\ registry = cmapssEngines
  /\ engineId \in SeqIds
  /\ cycles \in SeqCycles
  /\ rnd \in ConstantTapes
  /\ latestReading = Undefined
  /\ pc = "call"
  /\ result = Undefined
  /\ previous = Undefined
  /\ view = Undefined

NextSeq ==
  \/ generateCMAPSSSensorData
  \/ generateCMAPSSHealthData
  \/ getCMAPSSPerformanceMetrics
  \/ generateHistoricalData
  \/ getComponentHealthData
  \/ generateMaintenanceAlerts
  \/ nextCall

SpecSeq == InitSeq /\ [][NextSeq]_vars

\* ------------------------------------------------------- React components
\* The three components that poll the generators: RealisticTurbofanEngine
\* and Engine3DVisualization of Engine3DVisualization.tsx, and the earlier
\* RealisticTurbofanEngine of part_000, which has neither the guard on an
\* empty engineId nor the try/catch.
RTE == "RealisticTurbofanEngine"

E3D == "Engine3DVisualization"

RTE0 == "RealisticTurbofanEngine (part_000)"

Components == {RTE, E3D, RTE0}

\* values of the engineId prop: none, two registered ids, an unregistered one
PropIds == {"", "CMAPSS-FD001-001", "CMAPSS-FD002-001", "unknown-id"}

\* null, as a state value
Null == [kind |-> "null"]

\* a string, as a state value that may also be null
ErrorText(s) == [kind |-> "string", value |-> s]

\* no effect has run yet, no load has been attempted yet
None == "(none)"

\* const validEngineId = engineId || 'CMAPSS-FD001-001' in Engine3DVisualization;
\* the other two components use the prop as it is
validEngineId(v) ==
  IF v.component = E3D /\ v.engineId = "" THEN "CMAPSS-FD001-001"
  ELSE v.engineId

\* a catch that only logs, as in Engine3DVisualization
loadDataSwallowing(v, id) ==
  LET found == FindIndex(id) # 0
      sensors == SensorData(id, 1)
      attempted == [v EXCEPT !.loadedFor = id]
  IN  IF found
        THEN [attempted EXCEPT
                !.sensorData = IF Len(sensors) > 0 THEN sensors[1] ELSE Null,
                !.healthData = HealthData(registry[FindIndex(id)], id),
                !.error = Null,
                !.isLoading = IF v.component = RTE THEN FALSE ELSE @]
        ELSE IF v.component = RTE0
               THEN [attempted EXCEPT !.uncaught = TRUE]
               ELSE attempted

\* loadData with engineId = id in its closure, the state updates applied:
\* the sensor generator returns [] for an unknown id and the health
\* generator throws, before any setter is called; RealisticTurbofanEngine
\* catches and sets error, Engine3DVisualization catches and logs, the
\* component of part_000 does not catch
loadData(v, id) ==
  LET found == FindIndex(id) # 0
      sensors == SensorData(id, 1)
      attempted == [v EXCEPT !.loadedFor = id]
  IN  IF found
        THEN [attempted EXCEPT
                !.sensorData = IF Len(sensors) > 0 THEN sensors[1] ELSE Null,
                !.healthData = HealthData(registry[FindIndex(id)], id),
                !.error = Null,
                !.isLoading = IF v.component = RTE THEN FALSE ELSE @]
        ELSE IF v.component = RTE
               THEN [attempted EXCEPT
                       !.error = ErrorText("Failed to load engine data"),
                       !.isLoading = FALSE]
             ELSE IF v.component = RTE0
               THEN [attempted EXCEPT !.uncaught = TRUE]
               ELSE attempted

\* a cleanup that leaves the interval running
clearIntervalMissing(timers, interval) == timers

\* clearInterval(interval); a timer is named by the engineId its callback
\* closes over
clearInterval(timers, interval) == timers \ {interval}

\* setInterval(loadData, ...)
setInterval(timers, interval) == timers \cup {interval}

\* the parent renders the component with another engineId; React has run
\* the effects of the render before
changeEngineId(e) ==
  /\ view.mounted
  /\ ~view.pending
  /\ e # view.engineId
  /\ view' = [view EXCEPT
                !.engineId = e,
                !.pending = validEngineId([view EXCEPT !.engineId = e])
                              # view.effectOf]
  /\ UNCHANGED <<registry, engineId, cycles, rnd, latestReading, pc, result,
                 previous>>

\* React runs the effect of the committed render: the cleanup of the effect
\* before it, then the body: the guard of RealisticTurbofanEngine,
\* loadData(), setInterval; an exception thrown by loadData() leaves the
\* body before setInterval and takes the component down
runEffect ==
  /\ view.mounted
  /\ view.pending
  /\ LET id == validEngineId(view)
         cleaned == [view EXCEPT
                       !.timers = clearInterval(@, view.effectOf),
                       !.pending = FALSE,
                       !.effectOf = id]
         loaded == loadData(cleaned, id)
     IN  view' =
           IF view.component = RTE /\ id = ""
             THEN [cleaned EXCEPT
                     !.error = ErrorText("No engine ID provided"),
                     !.isLoading = FALSE]
             ELSE IF loaded.uncaught
                    THEN [loaded EXCEPT !.mounted = FALSE]
                    ELSE [loaded EXCEPT !.timers = setInterval(@, id)]
  /\ rnd' \in ConstantTapes
  /\ UNCHANGED <<registry, engineId, cycles, latestReading, pc, result,
                 previous>>

\* the interval of an effect fires and calls the loadData of that effect
tick(t) ==
  /\ t \in view.timers
  /\ view' = loadData(view, t)
  /\ rnd' \in ConstantTapes
  /\ UNCHANGED <<registry, engineId, cycles, latestReading, pc, result,
                 previous>>

\* the component is unmounted: React runs the cleanup of its effect
unmount ==
  /\ view.mounted
  /\ ~view.pending
  /\ view' = [view EXCEPT
                !.mounted = FALSE,
                !.timers = clearInterval(@, view.effectOf)]
  /\ UNCHANGED <<registry, engineId, cycles, rnd, latestReading, pc, result,
                 previous>>

\* A component just mounted with any engineId, its effect not yet run.
InitReact ==
  /\ registry = cmapssEngines
  /\ engineId = ""
  /\ cycles = 1
  /\ rnd \in ConstantTapes
  /\ latestReading = Undefined
  /\ pc = "call"
  /\ result = Undefined
  /\ previous = Undefined
  /\ \E c \in Components, e \in PropIds :
       view = [component |-> c,
               mounted |-> TRUE,
               engineId |-> e,
               pending |-> TRUE,
               effectOf |-> None,
               timers |-> {},
               sensorData |-> Null,
               healthData |-> Null,
               isLoading |-> (c = RTE),
               error |-> Null,
               loadedFor |-> None,
               uncaught |-> FALSE]

NextReact ==
  \/ \E e \in PropIds : changeEngineId(e)
  \/ runEffect
  \/ \E t \in PropIds : tick(t)
  \/ unmount

SpecReact == InitReact /\ [][NextReact]_vars

\* ------------------------------------------------------------------ claims
Registered(id) == \E i \in DOMAIN registry : registry[i].engineId = id

Returned(name) == pc = "return" /\ result.op = name

\* C1: for a registered id and n >= 0, generateCMAPSSSensorData(id, n)
\* returns exactly n readings, the i-th with cycle = i and engineId = id.
C1_ExactlyNReadings ==
  (Returned("generateCMAPSSSensorData") /\ Registered(engineId)) =>
    /\ result.kind = "return"
    /\ Len(result.value) = cycles
    /\ \A i \in 1 .. cycles :
         result.value[i].cycle = i /\ result.value[i].engineId = engineId

C1_Witness ==
  /\ Returned("generateCMAPSSSensorData")
  /\ Registered(engineId)
  /\ cycles = MaxCycles
  /\ Len(result.value) = MaxCycles
  /\ result.value[MaxCycles].cycle = MaxCycles

\* C2: for an id that is not in the registry, generateCMAPSSSensorData
\* returns the empty sequence for every n, and does not throw.
C2_UnknownIdGivesEmpty ==
  (Returned("generateCMAPSSSensorData") /\ ~Registered(engineId)) =>
    /\ result.kind = "return"
    /\ result.value = <<>>

C2_Witness ==
  /\ Returned("generateCMAPSSSensorData")
  /\ engineId = "unknown-id"
  /\ cycles = MaxCycles
  /\ result.kind = "return"
  /\ Len(result.value) = 0

\* C3: for an id that is not in the registry, generateCMAPSSHealthData
\* throws an error whose message names the id, and returns no assessment.
C3_UnknownIdThrows ==
  (Returned("generateCMAPSSHealthData") /\ ~Registered(engineId)) =>
    /\ result.kind = "throw"
    /\ result.message = <<"Engine ", engineId, " not found">>
    /\ "value" \notin DOMAIN result

C3_Witness ==
  /\ Returned("generateCMAPSSHealthData")
  /\ engineId = "unknown-id"
  /\ result.kind = "throw"
  /\ result.message[2] = "unknown-id"

\* C4: for a registered id, faultProbability lies in [0, 0.8] and
\* remainingUsefulLife is an integer >= 0 equal to round(cycles * 1.3 - cycles),
\* which is 3 * cycles / 10 rounded to the nearest integer, ties upwards.
C4_FaultProbabilityAndRUL ==
  (Returned("generateCMAPSSHealthData") /\ Registered(engineId)) =>
    /\ result.kind = "return"
    /\ result.value.faultProbability >= 0
    /\ result.value.faultProbability <= Tenths(8)
    /\ result.value.remainingUsefulLife \in Nat
    /\ \A i \in DOMAIN registry :
         registry[i].engineId = engineId =>
           result.value.remainingUsefulLife
             = (3 * registry[i].cycles + 5) \div 10

C4_Witness ==
  /\ Returned("generateCMAPSSHealthData")
  /\ engineId = "CMAPSS-FD003-001"
  /\ result.kind = "return"
  /\ result.value.remainingUsefulLife = 86
  /\ result.value.faultProbability = Thousandths(143)

\* C5: for every healthScore in [0, 100] the recommendation is one of the
\* four fixed strings: routine from 85, inspection in [75, 85), maintenance
\* in [70, 75), urgent below 70.
C5_RecommendationTiers ==
  Returned("generateCMAPSSHealthData") =>
    LET h == registry[1].healthScore
        r == result.value.maintenanceRecommendation
    IN  /\ r \in {"Continue normal operations",
                  "Schedule borescope inspection within 50 cycles",
                  "Plan maintenance within 25 cycles - component replacement may be required",
                  "URGENT: Schedule immediate maintenance - engine approaching critical degradation levels"}
        /\ h >= Fix(85) => r = "Continue normal operations"
        /\ (Fix(75) <= h /\ h < Fix(85)) =>
             r = "Schedule borescope inspection within 50 cycles"
        /\ (Fix(70) <= h /\ h < Fix(75)) =>
             r = "Plan maintenance within 25 cycles - component replacement may be required"
        /\ h < Fix(70) =>
             r = "URGENT: Schedule immediate maintenance - engine approaching critical degradation levels"

C5_Witness ==
  /\ Returned("generateCMAPSSHealthData")
  /\ registry[1].healthScore = Fix(75)
  /\ result.value.maintenanceRecommendation
       = "Schedule borescope inspection within 50 cycles"

\* C6: the assessment of CMAPSS-FD001-001 has remainingUsefulLife 109,
\* degradationRate 0.15, the routine recommendation, and exactly the two
\* critical components High Pressure Compressor and Compressor Blades.
C6_ScenarioFD001 ==
  (Returned("generateCMAPSSHealthData") /\ engineId = "CMAPSS-FD001-001") =>
    /\ result.kind = "return"
    /\ result.value.remainingUsefulLife = 109
    /\ result.value.degradationRate = Hundredths(15)
    /\ result.value.maintenanceRecommendation = "Continue normal operations"
    /\ result.value.criticalComponents
         = <<"High Pressure Compressor", "Compressor Blades">>

C6_Witness ==
  /\ Returned("generateCMAPSSHealthData")
  /\ engineId = "CMAPSS-FD001-001"
  /\ result.kind = "return"
  /\ result.value.currentCycle = 362
  /\ Len(result.value.criticalComponents) = 2

\* C7: the assessment of CMAPSS-FD004-002 has degradationRate 0.23, the
\* urgent recommendation, and all six component names among its critical
\* components.
C7_ScenarioFD004 ==
  (Returned("generateCMAPSSHealthData") /\ engineId = "CMAPSS-FD004-002") =>
    /\ result.kind = "return"
    /\ result.value.degradationRate = Hundredths(23)
    /\ result.value.maintenanceRecommendation
         = "URGENT: Schedule immediate maintenance - engine approaching critical degradation levels"
    /\ \A name \in {"High Pressure Compressor", "Compressor Blades",
                    "Fan Blades", "Fan Disk", "Combustor", "Turbine Blades"} :
         Includes(result.value.criticalComponents, name)

C7_Witness ==
  /\ Returned("generateCMAPSSHealthData")
  /\ engineId = "CMAPSS-FD004-002"
  /\ result.kind = "return"
  /\ result.value.healthScore = Tenths(689)
  /\ Len(result.value.criticalComponents) = 6

\* 9 * EGT - 5 * (T30 - 459.67) of an emitted reading, in units of 1/Scale
EGTGap(reading) == 9 * reading.EGT - 5 * (reading.T30 - Hundredths(45967))

\* C8, as claimed: in every emitted reading the EGT field equals
\* (the T30 field - 459.67) * 5/9 exactly.
C8_EGTExact ==
  Returned("generateCMAPSSSensorData") =>
    \A i \in DOMAIN result.value : EGTGap(result.value[i]) = 0

\* C8, amended: EGT is rounded to one decimal and T30 to two, each from the
\* unrounded value, so in every emitted reading the EGT field differs from
\* (the T30 field - 459.67) * 5/9 by at most 0.053.
C8_EGTWithinRounding ==
  Returned("generateCMAPSSSensorData") =>
    \A i \in DOMAIN result.value :
      Abs(EGTGap(result.value[i])) <= 9 * Thousandths(53)

C8_Witness ==
  /\ Returned("generateCMAPSSSensorData")
  /\ Len(result.value) = MaxCycles
  /\ \E i \in DOMAIN result.value :
       /\ EGTGap(result.value[i]) # 0
       /\ Abs(EGTGap(result.value[i])) > 9 * Hundredths(3)

\* epr * P2 - P24 of an emitted reading, in units of 1/Scale: epr has three
\* decimals and P2 two
EprGap(reading) ==
  (reading.epr \div (Scale \div 1000)) * (reading.P2 \div (Scale \div 100))
    - reading.P24

\* C9, as claimed: in every emitted reading the epr field equals the P24
\* field divided by the P2 field exactly.
C9_EprExact ==
  Returned("generateCMAPSSSensorData") =>
    \A i \in DOMAIN result.value : EprGap(result.value[i]) = 0

\* C9, amended: epr is P24 / P2 of the unrounded values rounded to three
\* decimals, so in every emitted reading the epr field differs from the P24
\* field divided by the P2 field by at most 0.02.
C9_EprWithinRounding ==
  Returned("generateCMAPSSSensorData") =>
    \A i \in DOMAIN result.value :
      /\ result.value[i].P2 > 0
      /\ Abs(EprGap(result.value[i])) <= result.value[i].P2 \div 50

C9_Witness ==
  /\ Returned("generateCMAPSSSensorData")
  /\ Len(result.value) = MaxCycles
  /\ \E i \in DOMAIN result.value :
       Abs(EprGap(result.value[i])) > result.value[i].P2 \div 200

\* C10: whenever the performance metrics are returned, fuelEfficiency is at
\* least 0.7 and thermalEfficiency at least 0.75, whatever the fuelFlow and
\* the EGT of the reading they are computed from.
C10_EfficiencyFloors ==
  (Returned("getCMAPSSPerformanceMetrics") /\ result.kind = "return") =>
    /\ result.value.fuelEfficiency >= Tenths(7)
    /\ result.value.thermalEfficiency >= Hundredths(75)

C10_Witness ==
  /\ Returned("getCMAPSSPerformanceMetrics")
  /\ result.kind = "return"
  /\ latestReading.fuelFlow = Fix(20000)
  /\ latestReading.EGT = Fix(1300)
  /\ result.value.fuelEfficiency = Tenths(7)
  /\ result.value.thermalEfficiency = Hundredths(75)

\* C11: getCMAPSSPerformanceMetrics returns null, without throwing, exactly
\* when the id is not registered; for a registered id it returns a value
\* whose operatingTemperature, vibrationLevel, pressureRatio, fanSpeed and
\* coreSpeed are those of the cycle-10 reading, the last of a 10-cycle
\* series, and whose thrustOutput is round(24000 * healthScore / 100).
C11_MetricsOfLastReading ==
  Returned("getCMAPSSPerformanceMetrics") =>
    /\ result.kind \in {"null", "return"}
    /\ result.kind = "null" <=> ~Registered(engineId)
    /\ result.kind = "return" =>
         /\ latestReading.cycle = 10
         /\ latestReading = SensorData(engineId, 10)[10]
         /\ result.value.operatingTemperature = latestReading.EGT
         /\ result.value.vibrationLevel = latestReading.vibration
         /\ result.value.pressureRatio = latestReading.epr
         /\ result.value.fanSpeed = latestReading.N1
         /\ result.value.coreSpeed = latestReading.N2
         /\ \A i \in DOMAIN registry :
              registry[i].engineId = engineId =>
                2 * Abs(100 * result.value.thrustOutput
                          - 24 * (registry[i].healthScore \div 100)) <= 100

C11_Witness ==
  /\ Returned("getCMAPSSPerformanceMetrics")
  /\ engineId = "CMAPSS-FD002-001"
  /\ result.kind = "return"
  /\ latestReading.cycle = 10
  /\ result.value.thrustOutput = 20496
  /\ result.value.fanSpeed = latestReading.N1

\* C12: for every registered engine and every cycle c >= 1, healthFactor
\* lies in [0.6, 1), and the speed channels Nf, Nc, N1 and N2 of every
\* reading are strictly positive.
C12_HealthFactorFloor ==
  (Returned("generateCMAPSSSensorData") /\ Registered(engineId)) =>
    \A c \in 1 .. cycles :
      /\ healthFactor(registry[FindIndex(engineId)], c) >= Tenths(6)
      /\ healthFactor(registry[FindIndex(engineId)], c) < Fix(1)
      /\ result.value[c].Nf > 0
      /\ result.value[c].Nc > 0
      /\ result.value[c].N1 > 0
      /\ result.value[c].N2 > 0

C12_Witness ==
  /\ Returned("generateCMAPSSSensorData")
  /\ engineId = "CMAPSS-FD004-002"
  /\ cycles = 200
  /\ healthFactor(registry[FindIndex(engineId)], 181) > Tenths(6)
  /\ healthFactor(registry[FindIndex(engineId)], 182) = Tenths(6)
  /\ result.value[200].Nf > Fix(1400)
  /\ result.value[200].N2 > Fix(58)

\* C13: for every record, degradationRate is 0.15, plus 0.05 if the fault
\* modes include Fan Degradation, plus 0.03 if the dataset is FD002 or
\* FD004: one of 0.15, 0.18, 0.20, 0.23, whatever healthScore and cycles are.
C13_DegradationRate ==
  Returned("generateCMAPSSHealthData") =>
    LET fan == \E k \in DOMAIN registry[1].faultModes :
                 registry[1].faultModes[k] = "Fan Degradation"
        variable == registry[1].dataset \in {"FD002", "FD004"}
        rate == result.value.degradationRate
    IN  /\ rate \in {Hundredths(15), Hundredths(18), Hundredths(20),
                     Hundredths(23)}
        /\ rate = Hundredths(15 + (IF fan THEN 5 ELSE 0)
                                + (IF variable THEN 3 ELSE 0))

C13_Witness ==
  /\ Returned("generateCMAPSSHealthData")
  /\ registry[1].dataset = "FD002"
  /\ registry[1].faultModes = <<"HPC Degradation">>
  /\ registry[1].healthScore = Fix(0)
  /\ registry[1].cycles = 5
  /\ result.value.degradationRate = Hundredths(18)

\* C14: criticalComponents holds High Pressure Compressor and Compressor
\* Blades iff the fault modes include HPC Degradation, Fan Blades and Fan
\* Disk iff they include Fan Degradation, Combustor and Turbine Blades iff
\* healthScore < 80, and no other name and no name twice.
C14_CriticalComponents ==
  Returned("generateCMAPSSHealthData") =>
    LET modes == {registry[1].faultModes[k] : k \in DOMAIN registry[1].faultModes}
        cc == result.value.criticalComponents
        names == {cc[k] : k \in DOMAIN cc}
    IN  /\ \A n \in {"High Pressure Compressor", "Compressor Blades"} :
             n \in names <=> "HPC Degradation" \in modes
        /\ \A n \in {"Fan Blades", "Fan Disk"} :
             n \in names <=> "Fan Degradation" \in modes
        /\ \A n \in {"Combustor", "Turbine Blades"} :
             n \in names <=> registry[1].healthScore < Fix(80)
        /\ names \subseteq {"High Pressure Compressor", "Compressor Blades",
                            "Fan Blades", "Fan Disk", "Combustor",
                            "Turbine Blades"}
        /\ \A j, k \in DOMAIN cc : j # k => cc[j] # cc[k]

C14_Witness ==
  /\ Returned("generateCMAPSSHealthData")
  /\ registry[1].faultModes = <<"Fan Degradation">>
  /\ registry[1].healthScore = Tenths(799)
  /\ result.value.criticalComponents
       = <<"Fan Blades", "Fan Disk", "Combustor", "Turbine Blades">>

\* C15: in the registry every engineId is unique and reads
\* CMAPSS-<dataset>-<digits> with the record's own dataset in the middle,
\* every healthScore lies in [0, 100], and a call with an id the registry
\* does not hold yields nothing taken from a record: an empty sequence,
\* null or the not-found error.
C15_RegistryIdentity ==
  /\ \A i, j \in DOMAIN registry :
       i # j => registry[i].engineId # registry[j].engineId
  /\ \A i \in DOMAIN registry :
       /\ Len(registry[i].engineId) = 16
       /\ SubSeq(registry[i].engineId, 1, 7) = "CMAPSS-"
       /\ SubSeq(registry[i].engineId, 8, 12) = registry[i].dataset
       /\ SubSeq(registry[i].engineId, 13, 13) = "-"
       /\ \A k \in 14 .. 16 :
            SubSeq(registry[i].engineId, k, k)
              \in {"0", "1", "2", "3", "4", "5", "6", "7", "8", "9"}
       /\ registry[i].healthScore >= 0
       /\ registry[i].healthScore <= Fix(100)
  /\ (pc = "return" /\ ~Registered(engineId)) =>
       \/ result.kind = "null"
       \/ result.kind = "throw"
            /\ result.message = <<"Engine ", engineId, " not found">>
       \/ result.kind = "return" /\ result.value = <<>>

C15_Witness ==
  /\ pc = "return"
  /\ engineId = ""
  /\ result.op = "getCMAPSSPerformanceMetrics"
  /\ result.kind = "null"
  /\ Len(registry) = 9

\* the call now returned and the earlier call `previous` are the same
\* operation with the same arguments and the same draws
SameCall ==
  /\ previous # Undefined
  /\ previous.result.op = result.op
  /\ previous.rnd = rnd
  /\ result.op # "generateMaintenanceAlerts" => previous.engineId = engineId
  /\ result.op \in {"generateCMAPSSSensorData", "generateHistoricalData"}
       => previous.cycles = cycles

C17_HistoryEntries ==
  Returned("generateHistoricalData") =>
    /\ result.kind = "return"
    /\ IF Registered(engineId)
         THEN /\ Len(result.value) = cycles
              /\ \A i \in 0 .. cycles - 1 :
                   LET reading == Reading(registry[FindIndex(engineId)],
                                          engineId, i + 1)
                   IN  /\ result.value[i + 1].cycles = i + 1
                       /\ result.value[i + 1].temperature = reading.EGT
                       /\ result.value[i + 1].vibration = reading.vibration
         ELSE result.value = <<>>

C17_Witness ==
  /\ Returned("generateHistoricalData")
  /\ engineId = "CMAPSS-FD003-002"
  /\ cycles = 2
  /\ Len(result.value) = 2
  /\ result.value[1].cycles = 1
  /\ result.value[2].cycles = 2
  /\ result.value[2].temperature > 0

\* C18: in generateHistoricalData(id, days) the healthScore of entry i (from
\* 0) is round(95 - 10 * i / days + j), j = 5 * draw in [0, 5): a function
\* of i, days and the draw alone, not of the readings nor of the record's
\* healthScore, going down from 95 toward 85 along the series, and always
\* within [85, 100].
C18_HistoryHealthScore ==
  Returned("generateHistoricalData") =>
    \A i \in 0 .. Len(result.value) - 1 :
      LET hs == result.value[i + 1].healthScore
          k == TapeAt(cycles * DrawsPerCycle + i + 1)
          twice == 190 * cycles * RandDen - 20 * i * RandDen
                     + 10 * k * cycles + cycles * RandDen
      IN  /\ hs \in 85 .. 100
          /\ hs * 2 * cycles * RandDen <= twice
          /\ twice < (hs + 1) * 2 * cycles * RandDen

C18_Witness ==
  /\ Returned("generateHistoricalData")
  /\ engineId = "CMAPSS-FD004-002"
  /\ registry[FindIndex(engineId)].healthScore < Fix(70)
  /\ cycles = 100
  /\ TapeAt(1) = 0
  /\ result.value[1].healthScore = 95
  /\ result.value[51].healthScore = 90
  /\ result.value[100].healthScore = 85

\* C19: getComponentHealthData(id) for a registered id returns five records
\* in the order fan, compressor, combustor, turbine, nozzle, the compressor,
\* combustor and turbine values lying around the healthScore of the one
\* assessment of that id; for an unregistered id it fails with the not-found
\* error of the health assessment and returns no list.
C19_ComponentHealthOrder ==
  Returned("getComponentHealthData") =>
    IF Registered(engineId)
      THEN LET hs == registry[FindIndex(engineId)].healthScore
               c == result.value
           IN  /\ result.kind = "return"
               /\ [k \in 1 .. Len(c) |-> c[k].id]
                    = <<"fan", "compressor", "combustor", "turbine", "nozzle">>
               /\ c[2].health >= MathRound(hs - Fix(5))
               /\ c[2].health <= MathRound(hs + Fix(5))
               /\ c[3].health >= MathRound(hs)
               /\ c[3].health <= MathRound(hs + Fix(5))
               /\ c[4].health >= MathRound(hs - Fix(3))
               /\ c[4].health <= MathRound(hs + Fix(3))
      ELSE /\ result.kind = "throw"
           /\ result.message = <<"Engine ", engineId, " not found">>

C19_Witness ==
  /\ Returned("getComponentHealthData")
  /\ engineId = "unknown-id"
  /\ result.kind = "throw"
  /\ result.message = <<"Engine ", "unknown-id", " not found">>

\* C20: every numeric channel of every reading is emitted rounded to at most
\* four decimals; no channel is emitted as it was computed.
C20_EveryChannelRounded ==
  Returned("generateCMAPSSSensorData") =>
    \A i \in DOMAIN result.value :
      LET r == result.value[i]
      IN  /\ \A v \in {r.EGT, r.N1, r.N2, r.fuelFlow, r.oilPressure,
                       r.oilTemperature, r.vibration, r.machNumber,
                       r.ambientTemp, r.T2, r.T24, r.T30, r.P2, r.P15,
                       r.P24, r.Ps30, r.Nf, r.Nc, r.epr, r.phi, r.NRf,
                       r.NRc, r.BPR, r.farB, r.htBleed, r.Nf_dmd,
                       r.PCNfR_dmd, r.W31} :
               v % (Scale \div 10000) = 0
          /\ ((r.altitude.num % r.altitude.den) * 10000) % r.altitude.den = 0

\* the call now returned and the earlier call `previous` are the same
\* operation on the same registered engine with the same arguments, made
\* under draws that differ at every position, and the operation has
\* something to generate (a series or a history of at least one cycle)
SameArgumentsOtherDraws ==
  /\ pc = "return"
  /\ previous # Undefined
  /\ previous.result.op = result.op
  /\ previous.engineId = engineId
  /\ previous.cycles = cycles
  /\ Registered(engineId)
  /\ cycles >= 1
  /\ \A i \in 1 .. TapeLen : previous.rnd[i] # rnd[i]

\* the fields no draw enters are the same in the two results
SameUnjitteredFields ==
  LET a == previous.result
      b == result
  IN  /\ a.kind = b.kind
      /\ b.op = "generateCMAPSSSensorData" =>
           /\ Len(a.value) = Len(b.value)
           /\ \A i \in DOMAIN b.value :
                /\ a.value[i].engineId = b.value[i].engineId
                /\ a.value[i].cycle = b.value[i].cycle
                /\ a.value[i].timestamp = b.value[i].timestamp
      /\ b.op = "generateHistoricalData" =>
           /\ Len(a.value) = Len(b.value)
           /\ \A i \in DOMAIN b.value :
                /\ a.value[i].cycles = b.value[i].cycles
                /\ a.value[i].date = b.value[i].date
      /\ b.op = "getCMAPSSPerformanceMetrics" =>
           /\ a.value.engineId = b.value.engineId
           /\ a.value.thrustOutput = b.value.thrustOutput
      /\ b.op = "getComponentHealthData" =>
           [k \in DOMAIN a.value |-> a.value[k].id]
             = [k \in DOMAIN b.value |-> b.value[k].id]

\* C21 as stated: no generator is reproducible, so for each of sensor
\* series, health assessment, performance metrics, history and component
\* health, two calls with the same arguments under different draws return
\* different results.
C21_NoOperationReproducible ==
  (SameArgumentsOtherDraws
     /\ result.op \in {"generateCMAPSSSensorData", "generateCMAPSSHealthData",
                       "getCMAPSSPerformanceMetrics", "generateHistoricalData",
                       "getComponentHealthData"})
    => result # previous.result

\* C21 amended: sensor series, performance metrics, history and component
\* health return different results under different draws, with engineId,
\* cycle and timestamp the same in both; the health assessment makes no draw
\* and returns the same result whatever the draws are.
C21_OnlyHealthReproducible ==
  SameArgumentsOtherDraws =>
    /\ result.op \in {"generateCMAPSSSensorData", "getCMAPSSPerformanceMetrics",
                      "generateHistoricalData", "getComponentHealthData"}
         => result # previous.result /\ SameUnjitteredFields
    /\ result.op = "generateCMAPSSHealthData" => result = previous.result

C21_Witness ==
  /\ SameArgumentsOtherDraws
  /\ result.op = "generateCMAPSSSensorData"
  /\ cycles = 2
  /\ result.value[2].T30 # previous.result.value[2].T30
  /\ result.value[2].timestamp = previous.result.value[2].timestamp
  /\ result.value[2].cycle = 2

\* the four channels of cycle c before rounding, for the engine of the call
Unrounded(c) ==
  LET engine == registry[FindIndex(engineId)]
      params == datasetParams(engine.dataset)
      d == (c - 1) * DrawsPerCycle
      hf == healthFactor(engine, c)
  IN  [hf |-> hf,
       T24 |-> T24Of(hf, cycleNoise(d + 2, params)),
       T30 |-> T30Of(hf, cycleNoise(d + 3, params)),
       Nf |-> NfOf(hf, cycleNoise(d + 8, params)),
       Nc |-> NcOf(hf, cycleNoise(d + 9, params))]

\* C22: with every draw equal, for cycles c1 < c2 of one engine the
\* unrounded T24 and T30 at c2 are at least those at c1, the unrounded Nf
\* and Nc at c2 are at most those at c1, and all four stay as they are from
\* the cycle on at which healthFactor has come down to 0.6.
C22_TrendWithEqualDraws ==
  (Returned("generateCMAPSSSensorData") /\ rnd \in ConstantTapes) =>
    LET u == [c \in 1 .. Len(result.value) |-> Unrounded(c)]
    IN  \A c1, c2 \in DOMAIN u :
          c1 < c2 =>
            /\ u[c2].T24 >= u[c1].T24
            /\ u[c2].T30 >= u[c1].T30
            /\ u[c2].Nf <= u[c1].Nf
            /\ u[c2].Nc <= u[c1].Nc
            /\ u[c1].hf = Tenths(6) =>
                 /\ u[c2].T24 = u[c1].T24
                 /\ u[c2].T30 = u[c1].T30
                 /\ u[c2].Nf = u[c1].Nf
                 /\ u[c2].Nc = u[c1].Nc

C22_Witness ==
  /\ Returned("generateCMAPSSSensorData")
  /\ rnd \in ConstantTapes
  /\ engineId = "CMAPSS-FD004-002"
  /\ cycles = 200
  /\ Unrounded(1).T30 < Unrounded(181).T30
  /\ Unrounded(1).Nf > Unrounded(181).Nf
  /\ Unrounded(181).hf > Tenths(6)
  /\ Unrounded(182).hf = Tenths(6)
  /\ Unrounded(182).T30 = Unrounded(200).T30
  /\ Unrounded(182).Nc = Unrounded(200).Nc

\* C23: in the component-health result the compressor status is warning
\* exactly when High Pressure Compressor is among the criticalComponents of
\* the assessment, the turbine status is warning exactly when healthScore
\* < 75, the fan, combustor and nozzle statuses are normal in every call,
\* and no status is critical.
C23_ComponentStatuses ==
  (Returned("getComponentHealthData") /\ result.kind = "return") =>
    LET healthData == HealthData(registry[FindIndex(engineId)], engineId)
        critical == {healthData.criticalComponents[k] :
                       k \in DOMAIN healthData.criticalComponents}
        c == result.value
    IN  /\ c[2].status = "warning" <=> "High Pressure Compressor" \in critical
        /\ c[4].status = "warning" <=> healthData.healthScore < Fix(75)
        /\ c[1].status = "normal"
        /\ c[3].status = "normal"
        /\ c[5].status = "normal"
        /\ \A k \in DOMAIN c : c[k].status \in {"normal", "warning"}

C23_Witness ==
  /\ Returned("getComponentHealthData")
  /\ engineId = "CMAPSS-FD004-002"
  /\ registry[FindIndex(engineId)].healthScore < Fix(75)
  /\ result.value[4].status = "warning"
  /\ result.value[2].status = "warning"
  /\ result.value[1].status = "normal"

\* C29: for every registered engine and every draw each of the five health
\* values of getComponentHealthData is an integer within [0, 100], also at
\* the ends of the jitter range; the fan value is round(90 + draw * 8),
\* within 90..98, since no registered engine has faultProbability > 0.3.
C29_ComponentHealthRange ==
  /\ \A i \in DOMAIN registry :
       /\ ToFixed(faultProbability(registry[i]), 3) <= Tenths(3)
       /\ MathRound(registry[i].healthScore - Fix(5)) >= 0
       /\ MathRound(registry[i].healthScore + Fix(5)) <= 100
  /\ (Returned("getComponentHealthData") /\ result.kind = "return") =>
       /\ \A k \in DOMAIN result.value : result.value[k].health \in 0 .. 100
       /\ result.value[1].health \in 90 .. 98
       /\ result.value[1].health
            = MathRound(Fix(90) + Mul(MathRandom(1), Fix(8)))

C29_Witness ==
  /\ Returned("getComponentHealthData")
  /\ engineId = "CMAPSS-FD004-002"
  /\ TapeAt(1) = RandDen - 1
  /\ result.value[1].health > 94
  /\ result.value[2].health < 75

\* C30: for every registered engine and every draw
\* getCMAPSSPerformanceMetrics returns fuelEfficiency > 1 and
\* thermalEfficiency > 1: fuelFlow stays below 2500 and EGT below 650, also
\* at the top of the noise range with healthFactor at its floor, so neither
\* the 0.7 nor the 0.75 clamp is the value returned.
C30_EfficienciesAboveOne ==
  /\ \A ds \in Datasets :
       LET top == Div(datasetParams(ds).tempVariation, Fix(2))
           phi == Hundredths(3) + Mul(Hundredths(1), Thousandths(2))
                    + Mul(Fix(1) - Tenths(6), Thousandths(5))
           Ps30 == Fix(1400) + Mul(top, Fix(30))
                     + Mul(Fix(1) - Tenths(6), Fix(60))
       IN  /\ EGTOf(T30Of(Tenths(6), top)) < Fix(650)
           /\ Mul(Mul(phi, Ps30), Tenths(1)) < Fix(2500)
  /\ (Returned("getCMAPSSPerformanceMetrics") /\ result.kind = "return") =>
       /\ latestReading.fuelFlow < Fix(2500)
       /\ latestReading.EGT < Fix(650)
       /\ result.value.fuelEfficiency > Fix(1)
       /\ result.value.thermalEfficiency > Fix(1)
       /\ result.value.fuelEfficiency # Tenths(7)
       /\ result.value.thermalEfficiency # Hundredths(75)

C30_Witness ==
  /\ Returned("getCMAPSSPerformanceMetrics")
  /\ engineId = "CMAPSS-FD004-002"
  /\ \A i \in 1 .. TapeLen : rnd[i] = RandDen - 1
  /\ latestReading.EGT > Fix(490)
  /\ result.value.thermalEfficiency > Fix(1)
  /\ result.value.fuelEfficiency > Tenths(19)

\* the assessment of the i-th engine of the registry
AssessmentOf(i) == HealthData(registry[i], registry[i].engineId)

\* the number of alerts engine i gives rise to
AlertsOfEngine(i) ==
  (IF AssessmentOf(i).healthScore < Fix(75) THEN 1 ELSE 0)
    + Len(AssessmentOf(i).criticalComponents)

\* the number of alerts the engines before the i-th give rise to
RECURSIVE AlertsBefore(_)
AlertsBefore(i) ==
  IF i = 1 THEN 0 ELSE AlertsBefore(i - 1) + AlertsOfEngine(i - 1)

\* C27: generateMaintenanceAlerts does not throw; for each engine in
\* registry order it returns one Overall Engine Health alert iff healthScore
\* < 75 (critical iff healthScore < 60, otherwise high, with the
\* recommendation of the assessment), followed by one medium alert per entry
\* of criticalComponents in their order, and nothing else; the ids of the
\* alerts of one call are pairwise distinct.
C27_MaintenanceAlerts ==
  Returned("generateMaintenanceAlerts") =>
    /\ result.kind = "return"
    /\ Len(result.value) = AlertsBefore(Len(registry) + 1)
    /\ \A i \in DOMAIN registry :
         LET healthData == AssessmentOf(i)
             low == healthData.healthScore < Fix(75)
             first == AlertsBefore(i) + 1
             skip == IF low THEN 1 ELSE 0
         IN  /\ low =>
                  /\ result.value[first].engineId = registry[i].engineId
                  /\ result.value[first].component = "Overall Engine Health"
                  /\ result.value[first].severity
                       = IF healthData.healthScore < Fix(60)
                           THEN "critical" ELSE "high"
                  /\ result.value[first].recommendation
                       = healthData.maintenanceRecommendation
             /\ \A k \in DOMAIN healthData.criticalComponents :
                  /\ result.value[AlertsBefore(i) + skip + k].engineId
                       = registry[i].engineId
                  /\ result.value[AlertsBefore(i) + skip + k].component
                       = healthData.criticalComponents[k]
                  /\ result.value[AlertsBefore(i) + skip + k].severity
                       = "medium"
    /\ \A j, k \in DOMAIN result.value :
         j # k => result.value[j].id # result.value[k].id

C27_Witness ==
  /\ Returned("generateMaintenanceAlerts")
  /\ \E j \in DOMAIN result.value :
       /\ result.value[j].engineId = "CMAPSS-FD004-002"
       /\ result.value[j].component = "Overall Engine Health"
       /\ result.value[j].severity = "high"
       /\ result.value[j + 1].engineId = "CMAPSS-FD004-002"
       /\ result.value[j + 1].severity = "medium"
  /\ result.value[1].engineId = "CMAPSS-FD001-001"
  /\ result.value[1].severity = "medium"

\* C28: generateSensorData(id) of the view model returns five readings,
\* EGT, N1_Speed, N2_Speed, Fuel_Flow, Vibration in that order, carrying the
\* values of the cycle-1 reading, for a registered id, and an empty list for
\* an unregistered id; for every registered engine and every draw, also at
\* the ends of the noise range, the five statuses are normal.
C28_ViewSensorData ==
  /\ \A ds \in Datasets :
       LET top == Div(datasetParams(ds).tempVariation, Fix(2))
       IN  /\ EGTOf(T30Of(Tenths(6), top)) <= Fix(650)
           /\ ToFixed(Mul(Div(NfOf(Fix(1), top), Fix(2400)), Fix(100)), 1)
                <= Fix(100)
           /\ ToFixed(Mul(Div(NcOf(Fix(1), top), Fix(9100)), Fix(100)), 1)
                <= Fix(105)
           /\ Mul(Fix(2388) - NfOf(Tenths(6), -top), Thousandths(1)) <= Fix(4)
  /\ Returned("generateSensorData") =>
       /\ result.kind = "return"
       /\ IF Registered(engineId)
            THEN LET reading == Reading(registry[FindIndex(engineId)],
                                        engineId, 1)
                     v == result.value
                 IN  /\ [k \in DOMAIN v |-> v[k].sensorType]
                          = <<"EGT", "N1_Speed", "N2_Speed", "Fuel_Flow",
                              "Vibration">>
                     /\ [k \in DOMAIN v |-> v[k].value]
                          = <<reading.EGT, reading.N1, reading.N2,
                              reading.fuelFlow, reading.vibration>>
                     /\ \A k \in DOMAIN v : v[k].status = "normal"
            ELSE result.value = <<>>

C28_Witness ==
  /\ Returned("generateSensorData")
  /\ engineId = "CMAPSS-FD004-001"
  /\ \A i \in 1 .. TapeLen : rnd[i] = RandDen - 1
  /\ Len(result.value) = 5
  /\ result.value[2].sensorType = "N1_Speed"
  /\ result.value[2].value > Fix(99)
  /\ result.value[2].status = "normal"

\* the effect of the last engineId change of RealisticTurbofanEngine has
\* run, and the last load attempt was made for the engineId it is rendered
\* with, which is not empty
LoadedCurrent ==
  /\ view.component = RTE
  /\ view.engineId # ""
  /\ ~view.pending
  /\ view.loadedFor = view.engineId

\* C24: in RealisticTurbofanEngine, whatever engineId changes and poll ticks
\* came before, once a load attempt for the current non-empty engineId has
\* completed, isLoading is false and does not become true again; error is
\* null exactly when the engineId is registered, and healthData is then the
\* assessment of that engine; for an unregistered id error is 'Failed to
\* load engine data' and the step that sets it leaves sensorData and
\* healthData as they were; no exception leaves loadData.
C24_LoadOutcome ==
  /\ [](LoadedCurrent =>
          /\ ~view.isLoading
          /\ view.error = Null <=> Registered(view.engineId)
          /\ Registered(view.engineId) =>
               /\ view.healthData # Null
               /\ view.healthData.engineId = view.engineId
               /\ view.sensorData # Null
               /\ view.sensorData.engineId = view.engineId
          /\ ~Registered(view.engineId) =>
               view.error = ErrorText("Failed to load engine data"))
  /\ [](view.component = RTE => ~view.uncaught)
  /\ [][view.component = RTE =>
          /\ ~view.isLoading => ~view'.isLoading
          /\ view'.error = ErrorText("Failed to load engine data") =>
               /\ view'.sensorData = view.sensorData
               /\ view'.healthData = view.healthData]_vars

C24_Witness ==
  /\ LoadedCurrent
  /\ view.engineId = "unknown-id"
  /\ view.error = ErrorText("Failed to load engine data")
  /\ ~view.isLoading
  /\ view.healthData # Null
  /\ view.healthData.engineId = "CMAPSS-FD002-001"
  /\ view.timers = {"unknown-id"}

\* C25: in Engine3DVisualization, once the effect of the last engineId
\* change has run and the load attempt for validEngineId (the prop, or
\* CMAPSS-FD001-001 when the prop is empty) has completed,
\* healthData and sensorData are each null or the data of the engine named
\* validEngineId, whatever engineId changes came before.
C25_OverlayDataOfTitledEngine ==
  (view.component = E3D /\ ~view.pending
     /\ view.loadedFor = validEngineId(view)) =>
    /\ view.healthData = Null
         \/ view.healthData.engineId = validEngineId(view)
    /\ view.sensorData = Null
         \/ view.sensorData.engineId = validEngineId(view)

\* the properties of the timers that do not concern which load runs: at
\* most one timer at a time, none after unmount, none for an empty engineId
\* in either RealisticTurbofanEngine, and an effect run leaves only the
\* timer it starts
OneTimer ==
  /\ [](/\ Cardinality(view.timers) <= 1
        /\ ~view.mounted => view.timers = {}
        /\ view.component \in {RTE, RTE0} => "" \notin view.timers)
  /\ [][runEffect => view'.timers \subseteq {validEngineId(view)}]_vars

\* C26 as stated: at most one polling timer is active at any time, an
\* engineId change clears the timer before it, no timer is started for an
\* empty engineId in RealisticTurbofanEngine, none remains after unmount,
\* and no load for an engineId other than the one now rendered ever runs.
C26_NoStaleLoad ==
  /\ OneTimer
  /\ [][\A t \in PropIds : tick(t) => t = validEngineId(view)]_vars

\* C26 amended: the same, with the last part holding from the effect of the
\* change on: a tick runs the load of the effect that ran last, and once
\* the effect of a change has run the only timer is that of the engineId
\* now rendered.
C26_NoStaleLoadAfterEffect ==
  /\ OneTimer
  /\ [][\A t \in PropIds : tick(t) => t = view.effectOf]_vars
  /\ [](~view.pending => view.timers \subseteq {validEngineId(view)})

C26_Witness ==
  /\ view.component = E3D
  /\ view.mounted
  /\ ~view.pending
  /\ view.engineId = "CMAPSS-FD002-001"
  /\ view.timers = {"CMAPSS-FD002-001"}
  /\ view.loadedFor = "CMAPSS-FD002-001"
  /\ view.healthData # Null
  /\ view.healthData.engineId = "CMAPSS-FD002-001"

====
